---- MODULE Spec2Model ----
(***************************************************************************)
(* Model of the download manager of expo-download-app:                     *)
(*   DownloadQueue   (priority queue + admitted set)                        *)
(*   DownloadManager (task registry, lifecycle engine)                      *)
(*   NetworkMonitor  (three-valued connectivity tracker)                    *)
(*   StorageManager  (persistence of the registry and of file metadata)     *)
(*                                                                         *)
(* JavaScript runs one callback at a time: every piece of code between two *)
(* awaits is one atomic action here.  An async call that is suspended at   *)
(* an await is an element of the bag `calls`; its continuation is a        *)
(* separate action that may interleave with every other callback.          *)
(***************************************************************************)
EXTENDS Integers, Sequences, FiniteSets, Bags, TLC

(* ------------------------------ bounds ------------------------------- *)

\* number of task ids the environment may create or restore
NumTasks == 2
\* upper end of the range the constructor's maxConcurrent is drawn from
MaxConcurrentBound == 2
\* number of add() calls of the stand-alone queue specification
MaxAdds == 3
\* user-issued async calls (download, pause, cancel, initialize) that may be
\* suspended at the same time, in the session that exercises every operation
MaxPending == 1
\* the same, in the sessions that study overlapping calls
MaxOverlap == 2

\* further ids, for the session that keeps tasks waiting in the queue
NumWaiting == 1
\* the size of a file, in the sessions that follow the byte counts
MaxBytes == 2

Ids == 1..(NumTasks + NumWaiting)
\* the ids the pause, resume and cancel calls of a session name
UserIds == 1..NumTasks
Priorities == {0, 5}
QueuePriorities == {0, 1, 5}
Urls == {"https", "http", "ftp", "malformed"}

(* ----------------------------- constants ----------------------------- *)

PENDING == "pending"
DOWNLOADING == "downloading"
PAUSED == "paused"
COMPLETED == "completed"
FAILED == "failed"
CANCELLED == "cancelled"

ONLINE == "online"
OFFLINE == "offline"
UNKNOWN == "unknown"

NETWORK_ERROR == "NETWORK_ERROR"
INSUFFICIENT_STORAGE == "INSUFFICIENT_STORAGE"
NoError == "none"

EV_PROGRESS == "progress"
EV_STATUS_CHANGE == "status-change"
EV_COMPLETED == "completed"
EV_ERROR == "error"
EV_CANCELLED == "cancelled"

\* absent entry of a Map (tasks.get(id) === undefined, downloads.get(id) === undefined)
NoTask == [status |-> "absent"]
NoHandle == 0

VARIABLES
    queue,          \* DownloadQueue.queue: sequence of QueueItem
    active,         \* DownloadQueue.activeDownloads
    maxConcurrent,  \* DownloadQueue.maxConcurrent
    clock,          \* Date.now() as read by DownloadQueue.add
    returned,       \* items handed out by getNext since the last add (history)
    tasks,          \* DownloadManager.tasks
    downloads,      \* DownloadManager.downloads: id -> handle
    isInitialized,  \* DownloadManager.isInitialized
    calls,          \* async calls suspended at an await (bag)
    nextId,         \* next id generateTaskId() hands out
    disk,           \* AsyncStorage: the persisted task snapshot
    delFile,        \* per id: number of StorageManager.deleteFile calls (history)
    delMeta,        \* per id: number of StorageManager.deleteMetadata calls (history)
    currentState,   \* NetworkMonitor.currentState
    isMonitoring,   \* NetworkMonitor.isMonitoring
    checkInterval,  \* NetworkMonitor.checkInterval is set (periodic probe armed)
    handlers,       \* number of online/offline listener pairs registered by initialize
    autoRetry,      \* config.autoRetryOnNetworkRestore
    maxPending,     \* environment: how many user calls may be suspended at once
    writesMayFail,  \* environment: AsyncStorage.setItem may throw
    lastSignal,     \* the signal the monitor emitted last (history), "none"
                    \* before the first one
    last            \* the step just taken (history): operation, id, outcome and
                    \* the events the manager emitted in it, in order

vars == <<queue, active, maxConcurrent, clock, returned, tasks, downloads,
          isInitialized, calls, nextId, disk, delFile, delMeta,
          currentState, isMonitoring, checkInterval, handlers, autoRetry,
          maxPending, writesMayFail, lastSignal, last>>

queueVars == <<queue, active, clock, returned>>
engineVars == <<tasks, downloads, isInitialized, calls, nextId, disk,
                delFile, delMeta, currentState, isMonitoring, checkInterval,
                handlers, lastSignal>>

(* --------------------------- DownloadQueue --------------------------- *)

QueueItem(taskId, priority, addedAt) ==
    [taskId |-> taskId, priority |-> priority, addedAt |-> addedAt]

\* variant: the new item goes before the items of its own priority
FindIndexLE(q, priority) ==
    LET hits == {i \in 1..Len(q) : q[i].priority <= priority}
    IN IF hits = {} THEN 0 ELSE CHOOSE i \in hits : \A j \in hits : i <= j

\* Array.prototype.findIndex(q => q.priority < priority): 0 stands for -1
FindIndex(q, priority) ==
    LET hits == {i \in 1..Len(q) : q[i].priority < priority}
    IN IF hits = {} THEN 0 ELSE CHOOSE i \in hits : \A j \in hits : i <= j

\* DownloadQueue.add
QAdd(q, taskId, priority, now) ==
    LET item == QueueItem(taskId, priority, now)
        insertIndex == FindIndex(q, priority)
    IN IF insertIndex = 0
       THEN Append(q, item)
       ELSE SubSeq(q, 1, insertIndex - 1) \o <<item>> \o SubSeq(q, insertIndex, Len(q))

\* this.queue.filter(item => item.taskId !== taskId)
RECURSIVE QFilter(_, _)
QFilter(q, taskId) ==
    IF q = <<>> THEN <<>>
    ELSE IF Head(q).taskId = taskId THEN QFilter(Tail(q), taskId)
    ELSE <<Head(q)>> \o QFilter(Tail(q), taskId)

\* DownloadQueue.hasCapacity
HasCapacity(act, maxC) == Cardinality(act) < maxC

\* variant: getNext without the test of the limit
CanGetNextNoLimit(q, act, maxC) == q # <<>>

\* DownloadQueue.getNext: may an item be handed out?
CanGetNext(q, act, maxC) == ~(Cardinality(act) >= maxC) /\ q # <<>>

(* ------------------- the manager's state as a record ------------------ *)
(* The synchronous code of the manager is written as operators from state *)
(* record to state record, so that a call made inside another call        *)
(* (processQueue inside resume, pause inside handleNetworkOffline) is the  *)
(* composition of the operators.                                          *)

Cur == [tasks |-> tasks, queue |-> queue, active |-> active,
        downloads |-> downloads, calls |-> calls, events |-> <<>>,
        disk |-> disk, delFile |-> delFile, delMeta |-> delMeta,
        currentState |-> currentState]

Commit(st) ==
    /\ tasks' = st.tasks
    /\ queue' = st.queue
    /\ active' = st.active
    /\ downloads' = st.downloads
    /\ calls' = st.calls
    /\ disk' = st.disk
    /\ delFile' = st.delFile
    /\ delMeta' = st.delMeta
    /\ currentState' = st.currentState

\* DownloadTask: the fields the manager reads or reports; a completed task
\* has its progress at 100 and its completedAt set (lines 446-447); startedAt
\* and completedAt say whether the timestamp has a value: a task that has been
\* transferring, or carries what only a transfer leaves (a resume token, a
\* network error), has been through line 420
Task(status, error, resumeData, totalBytes) ==
    [status |-> status, error |-> error, resumeData |-> resumeData,
     totalBytes |-> totalBytes, downloadedBytes |-> 0,
     progress |-> IF status = COMPLETED THEN 100 ELSE 0,
     startedAt |-> (status \in {DOWNLOADING, PAUSED, COMPLETED}
                    \/ error = NETWORK_ERROR \/ resumeData),
     completedAt |-> (status = COMPLETED)]

\* a suspended async call: the operation, its task, the await it is at, the
\* transfer handle it holds and (download) the priority it was given
Call(op, id, pc, h, pri) == [op |-> op, id |-> id, pc |-> pc, h |-> h, pri |-> pri]

\* startDownload suspended at downloadAsync(): besides the handle it holds the
\* closure of its throttled progress callback (lastCall, 0 until the first
\* call) and, of the transfer, the byte count reported last
StartCall(id, h) ==
    [op |-> "start", id |-> id, pc |-> "downloadAsync", h |-> h, pri |-> 0,
     lastCall |-> 0, written |-> 0]

\* the setTimeout of the throttle of the transfer h of task id, pending with
\* the arguments of the deferred call
Timeout(id, h, written, total) ==
    [op |-> "timeout", id |-> id, pc |-> "setTimeout", h |-> h, pri |-> 0,
     written |-> written, total |-> total]

Spawn(st, c) == [st EXCEPT !.calls = @ (+) SetToBag({c})]
Finish(st, c) == [st EXCEPT !.calls = @ (-) SetToBag({c})]
Move(st, c, pc) == Spawn(Finish(st, c), [c EXCEPT !.pc = pc])

InFlight == BagToSet(calls)
UserOps == {"download", "pause", "cancel", "initialize", "cleanup"}
RECURSIVE CountUser(_, _)
CountUser(bag, S) ==
    IF S = {} THEN 0
    ELSE LET c == CHOOSE x \in S : TRUE
         IN (IF c.op \in UserOps THEN CopiesIn(c, bag) ELSE 0) + CountUser(bag, S \ {c})
UserPending == CountUser(calls, BagToSet(calls))

\* an emitted event: its name, the task it is about and, for a status change,
\* the new and the old status
Event(ev, id, status, oldStatus) ==
    [ev |-> ev, id |-> id, status |-> status, oldStatus |-> oldStatus]

\* EventEmitter.emit of the manager
Emit(st, ev, id) == [st EXCEPT !.events = Append(@, Event(ev, id, "", ""))]

\* the transfer of handle h of task id is running: its startDownload is
\* suspended at downloadAsync()
Running(st, id, h) ==
    \E c \in BagToSet(st.calls) : c.op = "start" /\ c.pc = "downloadAsync" /\ c.id = id /\ c.h = h

\* pauseAsync() succeeded on handle h: downloadAsync() of that handle resolves
\* with undefined, and startDownload ends without any effect (line 444)
TransferPaused(st, id, h) ==
    LET c == CHOOSE x \in BagToSet(st.calls) :
                 x.op = "start" /\ x.pc = "downloadAsync" /\ x.id = id /\ x.h = h
    IN Finish(st, c)

\* FileSystem.createDownloadResumable: a handle no reference is held to
FreshHandle(st, id) ==
    LET used == {st.downloads[id]} \cup {c.h : c \in {x \in BagToSet(st.calls) : x.id = id}}
    IN CHOOSE h \in 1..(Cardinality(used) + 1) :
           h \notin used /\ \A k \in 1..(h - 1) : k \in used

(* ----------------------------- DownloadManager ------------------------ *)

\* DownloadManager.updateTaskStatus
UpdateTaskStatus(st, taskId, newStatus) ==
    IF st.tasks[taskId] = NoTask THEN st
    ELSE [st EXCEPT !.tasks[taskId].status = newStatus,
                    !.events = Append(@, Event(EV_STATUS_CHANGE, taskId, newStatus,
                                               st.tasks[taskId].status))]

\* variant: a failing write puts the registry back to the saved snapshot
PersistTasksRollsBack(st, saveOk) ==
    IF saveOk THEN [st EXCEPT !.disk = st.tasks] ELSE [st EXCEPT !.tasks = st.disk]

\* DownloadManager.persistTasks -> StorageManager.saveTasks: the snapshot is
\* serialised at the call; a failing write is caught and logged
PersistTasks(st, saveOk) == IF saveOk THEN [st EXCEPT !.disk = st.tasks] ELSE st

\* DownloadQueue.getNext, when it hands out an item
GetNext(st) ==
    [st EXCEPT !.queue = Tail(@), !.active = @ \cup {Head(st.queue).taskId}]

\* DownloadQueue.complete
QComplete(st, taskId) == [st EXCEPT !.active = @ \ {taskId}]

\* DownloadQueue.remove
QRemove(st, taskId) ==
    [st EXCEPT !.queue = QFilter(@, taskId), !.active = @ \ {taskId}]

\* startDownload, lines 418-442: status, startedAt = Date.now(), handle,
\* downloadAsync()
BeginTransfer(st, taskId) ==
    LET s0 == UpdateTaskStatus(st, taskId, DOWNLOADING)
        s1 == IF s0.tasks[taskId] = NoTask THEN s0
              ELSE [s0 EXCEPT !.tasks[taskId].startedAt = TRUE]
        h == FreshHandle(s1, taskId)
        s2 == [s1 EXCEPT !.downloads[taskId] = h]
    IN Spawn(s2, StartCall(taskId, h))

\* startDownload up to its first await
StartDownload(st, taskId) ==
    IF st.tasks[taskId] = NoTask THEN st
    ELSE IF st.tasks[taskId].totalBytes > 0
         THEN Spawn(st, Call("start", taskId, "hasEnoughStorage", NoHandle, 0))
         ELSE BeginTransfer(st, taskId)

\* variant: the queue is not looked at when a slot may be free
ProcessQueueNever(st) == st

\* DownloadManager.processQueue
RECURSIVE ProcessQueue(_)
ProcessQueue(st) ==
    IF HasCapacity(st.active, maxConcurrent) /\ CanGetNext(st.queue, st.active, maxConcurrent)
    THEN ProcessQueue(StartDownload(GetNext(st), Head(st.queue).taskId))
    ELSE st

\* variant: the queue is not processed after a failure (no line 503)
HandleDownloadErrorNoAdvance(st, taskId, code, saveOk) ==
    IF st.tasks[taskId] = NoTask THEN st
    ELSE LET s1 == [st EXCEPT !.tasks[taskId].error = code]
             s2 == UpdateTaskStatus(s1, taskId, FAILED)
             s3 == QComplete(s2, taskId)
             s4 == [s3 EXCEPT !.downloads[taskId] = NoHandle]
             s5 == Emit(s4, EV_ERROR, taskId)
         IN PersistTasks(s5, saveOk)

\* DownloadManager.handleDownloadError
HandleDownloadError(st, taskId, code, saveOk) ==
    IF st.tasks[taskId] = NoTask THEN st
    ELSE LET s1 == [st EXCEPT !.tasks[taskId].error = code]
             s2 == UpdateTaskStatus(s1, taskId, FAILED)
             s3 == QComplete(s2, taskId)
             s4 == [s3 EXCEPT !.downloads[taskId] = NoHandle]
             s5 == Emit(s4, EV_ERROR, taskId)
             s6 == PersistTasks(s5, saveOk)
         IN ProcessQueue(s6)

\* variant: every url that parses is accepted, whatever its protocol
ValidateUrlAnyProtocol(url) == url # "malformed"

\* utils.validateUrl
ValidateUrl(url) == url \in {"http", "https"}

Step(op, id, res, events) == [op |-> op, id |-> id, res |-> res, events |-> events]

\* the outcome of an action: the new state and the record of the step
Done(st, op, id, res) == Commit(st) /\ last' = Step(op, id, res, st.events)

\* outcomes of a write to AsyncStorage
SaveOutcomes == IF writesMayFail THEN BOOLEAN ELSE {TRUE}

\* the environment issues a new call only while fewer than MaxPending of its
\* earlier calls are suspended
MayCall == isInitialized /\ UserPending < maxPending

Frame == UNCHANGED <<maxConcurrent, clock, returned, isInitialized, nextId,
                     isMonitoring, checkInterval, handlers, autoRetry,
                     maxPending, writesMayFail, lastSignal>>

\* DownloadManager.pause up to its first await: <<state, outcome>>
PauseCall(st, taskId) ==
    IF st.tasks[taskId] = NoTask THEN <<st, "Task not found">>
    ELSE IF st.tasks[taskId].status # DOWNLOADING THEN <<st, "return">>
    ELSE IF st.downloads[taskId] # NoHandle
         THEN <<Spawn(st, Call("pause", taskId, "pauseAsync", st.downloads[taskId], 0)), "await">>
         ELSE <<st, "return">>

\* variant: resume without the test of the status (line 299)
ResumeCallAnyStatus(st, taskId) ==
    IF st.tasks[taskId] = NoTask THEN <<st, "Task not found">>
    ELSE IF st.currentState # ONLINE THEN <<st, "No network connection">>
    ELSE LET s2 == UpdateTaskStatus(st, taskId, PENDING)
             s3 == [s2 EXCEPT !.queue = QAdd(@, taskId, 0, clock)]
         IN <<ProcessQueue(s3), "resumed">>

\* variant: resume without the test of the network (lines 303-306)
ResumeCallAnyNetwork(st, taskId) ==
    IF st.tasks[taskId] = NoTask THEN <<st, "Task not found">>
    ELSE IF st.tasks[taskId].status # PAUSED /\ st.tasks[taskId].status # FAILED
         THEN <<st, "return">>
    ELSE LET s1 == IF st.tasks[taskId].status = FAILED
                   THEN [st EXCEPT !.tasks[taskId].error = NoError]
                   ELSE st
             s2 == UpdateTaskStatus(s1, taskId, PENDING)
             s3 == [s2 EXCEPT !.queue = QAdd(@, taskId, 0, clock)]
         IN <<ProcessQueue(s3), "resumed">>

\* DownloadManager.resume (it never suspends): <<state, outcome>>
ResumeCall(st, taskId) ==
    IF st.tasks[taskId] = NoTask THEN <<st, "Task not found">>
    ELSE IF st.tasks[taskId].status # PAUSED /\ st.tasks[taskId].status # FAILED
         THEN <<st, "return">>
    ELSE IF st.currentState # ONLINE THEN <<st, "No network connection">>
    ELSE LET s1 == IF st.tasks[taskId].status = FAILED
                   THEN [st EXCEPT !.tasks[taskId].error = NoError]
                   ELSE st
             s2 == UpdateTaskStatus(s1, taskId, PENDING)
             s3 == [s2 EXCEPT !.queue = QAdd(@, taskId, 0, clock)]
         IN <<ProcessQueue(s3), "resumed">>

\* cancel, lines 339-343: leave the queue, call deleteFile
CancelRemove(st, taskId) ==
    LET s1 == QRemove(st, taskId)
    IN [s1 EXCEPT !.delFile[taskId] = @ + 1]

\* variant: cancel without the test of lines 323-326
CancelCallUnchecked(st, taskId) ==
    IF st.downloads[taskId] # NoHandle
    THEN <<Spawn(st, Call("cancel", taskId, "pauseAsync", st.downloads[taskId], 0)), "await">>
    ELSE <<Spawn(CancelRemove(st, taskId), Call("cancel", taskId, "deleteFile", NoHandle, 0)),
           "await">>

\* DownloadManager.cancel up to its first await: <<state, outcome>>
CancelCall(st, taskId) ==
    IF st.tasks[taskId] = NoTask THEN <<st, "Task not found">>
    ELSE IF st.downloads[taskId] # NoHandle
         THEN <<Spawn(st, Call("cancel", taskId, "pauseAsync", st.downloads[taskId], 0)), "await">>
         ELSE <<Spawn(CancelRemove(st, taskId), Call("cancel", taskId, "deleteFile", NoHandle, 0)),
                "await">>

(* ------------------------------ actions ------------------------------- *)

\* download(url, options): validate, create the task, await saveMetadata
Download(url, pri) ==
    /\ MayCall
    /\ IF ~ValidateUrl(url)
       THEN /\ last' = Step("download", 0, "INVALID_URL", <<>>)
            /\ UNCHANGED <<queueVars, engineVars, maxConcurrent, autoRetry,
                           maxPending, writesMayFail>>
       ELSE /\ nextId \in Ids
            /\ Done(Spawn([Cur EXCEPT !.tasks[nextId] = Task(PENDING, NoError, FALSE, 0)],
                          Call("download", nextId, "saveMetadata", NoHandle, pri)),
                    "download", nextId, "await")
            /\ nextId' = nextId + 1
            /\ UNCHANGED <<maxConcurrent, clock, returned, isInitialized, isMonitoring,
                           checkInterval, handlers, autoRetry, maxPending, writesMayFail,
                           lastSignal>>

\* download after saveMetadata: enqueue, processQueue
DownloadSaved(c) ==
    /\ c.op = "download" /\ c.pc = "saveMetadata"
    /\ LET s1 == Finish(Cur, c)
           s2 == [s1 EXCEPT !.queue = QAdd(@, c.id, c.pri, clock)]
       IN Done(ProcessQueue(s2), "downloadSaved", c.id, c.pri)
    /\ Frame

Pause(taskId) ==
    /\ MayCall
    /\ LET r == PauseCall(Cur, taskId)
       IN Done(r[1], "pause", taskId, r[2])
    /\ Frame

\* variant: the catch block makes the pause transition all the same
PauseFailedStillPauses(st, c) ==
    LET s1 == UpdateTaskStatus(Finish(st, c), c.id, PAUSED)
        s2 == QComplete(s1, c.id)
    IN ProcessQueue([s2 EXCEPT !.downloads[c.id] = NoHandle])

\* pause, lines 284-286: the exception of pauseAsync() is caught and logged
PauseFailed(st, c) == Finish(st, c)

\* pauseAsync() of pause came back: with a resume token (the transfer was
\* running and is now paused) or with an exception
PauseReturns(c, ok, saveOk) ==
    /\ c.op = "pause" /\ c.pc = "pauseAsync"
    /\ ok => Running(Cur, c.id, c.h)
    /\ IF ok
       THEN LET s1 == TransferPaused(Cur, c.id, c.h)
                s2 == IF s1.tasks[c.id] = NoTask THEN s1
                      ELSE [s1 EXCEPT !.tasks[c.id].resumeData = TRUE]
                s3 == UpdateTaskStatus(s2, c.id, PAUSED)
                s4 == PersistTasks(s3, saveOk)
            IN Done(Move(s4, c, "persistTasks"), "pauseReturns", c.id, "ok")
       ELSE Done(PauseFailed(Cur, c), "pauseReturns", c.id, "throw")
    /\ Frame

\* pause after persistTasks: free the slot, drop the handle, processQueue
PausePersisted(c) ==
    /\ c.op = "pause" /\ c.pc = "persistTasks"
    /\ LET s1 == QComplete(Finish(Cur, c), c.id)
           s2 == [s1 EXCEPT !.downloads[c.id] = NoHandle]
       IN Done(ProcessQueue(s2), "pausePersisted", c.id, "ok")
    /\ Frame

Resume(taskId) ==
    /\ MayCall
    /\ LET r == ResumeCall(Cur, taskId)
       IN Done(r[1], "resume", taskId, r[2])
    /\ Frame

Cancel(taskId) ==
    /\ MayCall
    /\ LET r == CancelCall(Cur, taskId)
       IN Done(r[1], "cancel", taskId, r[2])
    /\ Frame

\* pauseAsync() of cancel came back, either way: drop the handle, leave the
\* queue, call deleteFile
CancelPauseReturns(c, ok) ==
    /\ c.op = "cancel" /\ c.pc = "pauseAsync"
    /\ ok => Running(Cur, c.id, c.h)
    /\ LET s1 == IF ok THEN TransferPaused(Cur, c.id, c.h) ELSE Cur
           s2 == [s1 EXCEPT !.downloads[c.id] = NoHandle]
           s3 == CancelRemove(s2, c.id)
       IN Done(Spawn(Finish(s3, c), Call("cancel", c.id, "deleteFile", NoHandle, 0)),
               "cancelPauseReturns", c.id, IF ok THEN "ok" ELSE "throw")
    /\ Frame

\* deleteFile came back: call deleteMetadata
CancelFileDeleted(c) ==
    /\ c.op = "cancel" /\ c.pc = "deleteFile"
    /\ Done(Move([Cur EXCEPT !.delMeta[c.id] = @ + 1], c, "deleteMetadata"),
            "cancelFileDeleted", c.id, "ok")
    /\ Frame

\* deleteMetadata came back: Cancelled, emit, leave the registry, persist
CancelMetaDeleted(c, saveOk) ==
    /\ c.op = "cancel" /\ c.pc = "deleteMetadata"
    /\ LET s1 == UpdateTaskStatus(Cur, c.id, CANCELLED)
           s2 == Emit(s1, EV_CANCELLED, c.id)
           s3 == [s2 EXCEPT !.tasks[c.id] = NoTask]
           s4 == PersistTasks(s3, saveOk)
       IN Done(Move(s4, c, "persistTasks"), "cancelMetaDeleted", c.id, "ok")
    /\ Frame

\* cancel after persistTasks: processQueue, return
CancelPersisted(c) ==
    /\ c.op = "cancel" /\ c.pc = "persistTasks"
    /\ Done(ProcessQueue(Finish(Cur, c)), "cancelReturns", c.id, "ok")
    /\ Frame

\* startDownload after hasEnoughStorage
StorageChecked(c, hasSpace, saveOk) ==
    /\ c.op = "start" /\ c.pc = "hasEnoughStorage"
    /\ IF hasSpace
       THEN Done(BeginTransfer(Finish(Cur, c), c.id), "storageChecked", c.id, "ok")
       ELSE Done(HandleDownloadError(Finish(Cur, c), c.id, INSUFFICIENT_STORAGE, saveOk),
                 "storageChecked", c.id, "noSpace")
    /\ Frame

\* downloadAsync() resolved with a result
TransferSucceeds(c, saveOk) ==
    /\ c.op = "start" /\ c.pc = "downloadAsync"
    /\ LET s1 == IF Cur.tasks[c.id] = NoTask THEN Cur
                 ELSE [Cur EXCEPT !.tasks[c.id].completedAt = TRUE,
                                  !.tasks[c.id].progress = 100,
                                  !.tasks[c.id].resumeData = FALSE]
           s2 == UpdateTaskStatus(s1, c.id, COMPLETED)
           s3 == QComplete(s2, c.id)
           s4 == [s3 EXCEPT !.downloads[c.id] = NoHandle]
           s5 == Emit(s4, EV_COMPLETED, c.id)
           s6 == PersistTasks(s5, saveOk)
       IN Done(Spawn(Finish(s6, c), Call("start", c.id, "persistTasks", NoHandle, 0)),
               "transferSucceeds", c.id, "ok")
    /\ Frame

\* startDownload after the persistTasks of a success: processQueue
SuccessPersisted(c) ==
    /\ c.op = "start" /\ c.pc = "persistTasks"
    /\ Done(ProcessQueue(Finish(Cur, c)), "successPersisted", c.id, "ok")
    /\ Frame

\* downloadAsync() threw
TransferThrows(c, saveOk) ==
    /\ c.op = "start" /\ c.pc = "downloadAsync"
    /\ Done(HandleDownloadError(Finish(Cur, c), c.id, NETWORK_ERROR, saveOk),
            "transferThrows", c.id, "throw")
    /\ Frame

\* Math.round(0 / 0) and Math.round(n / 0) for n > 0: the two results of line
\* 481 that are no integer, each written as a number outside 0..100
NaN == -1

Infinity == 101

\* Math.round(written / expected * 100)
Percent(written, total) ==
    IF total > 0 THEN (200 * written + total) \div (2 * total)
    ELSE IF written = 0 THEN NaN ELSE Infinity

\* DownloadManager.handleProgress
HandleProgress(st, taskId, written, total) ==
    IF st.tasks[taskId] = NoTask THEN st
    ELSE Emit([st EXCEPT !.tasks[taskId].totalBytes = total,
                         !.tasks[taskId].downloadedBytes = written,
                         !.tasks[taskId].progress = Percent(written, total)],
              EV_PROGRESS, taskId)

\* the timer the closure of call c has pending, if any
TimeoutsOf(st, c) ==
    {t \in BagToSet(st.calls) : t.op = "timeout" /\ t.id = c.id /\ t.h = c.h}

\* clearTimeout(timeoutId)
ClearTimeout(st, c) == [st EXCEPT !.calls = @ (-) SetToBag(TimeoutsOf(st, c))]

\* the throttled progress callback, called by the running transfer with byte
\* counts that do not decrease; elapsed: now - lastCall >= intervalMs, which
\* holds at the first call (lastCall = 0)
ProgressCallback(c, elapsed, written, total) ==
    /\ c.op = "start" /\ c.pc = "downloadAsync"
    /\ written >= c.written
    /\ c.lastCall = 0 => elapsed
    /\ IF elapsed
       THEN LET c1 == [c EXCEPT !.lastCall = 1, !.written = written]
            IN Done(HandleProgress(Spawn(Finish(Cur, c), c1), c.id, written, total),
                    "progressCallback", c.id, "now")
       ELSE LET c1 == [c EXCEPT !.written = written]
                s1 == ClearTimeout(Spawn(Finish(Cur, c), c1), c)
            IN Done(Spawn(s1, Timeout(c.id, c.h, written, total)),
                    "progressCallback", c.id, "deferred")
    /\ Frame

\* the timer of the throttle fires: lastCall = Date.now(), func(...args)
ThrottleTimeout(t) ==
    /\ t.op = "timeout"
    /\ LET s1 == Finish(Cur, t)
       IN Done(HandleProgress(s1, t.id, t.written, t.total), "throttleTimeout", t.id, "now")
    /\ Frame

(* --------------------------- network policy --------------------------- *)

Min(S) == CHOOSE x \in S : \A y \in S : x <= y

\* for (const task of failedTasks) this.resume(task.id).catch(...): the Map
\* iterates in insertion order, which is the order of the ids
RECURSIVE ResumeEach(_, _)
ResumeEach(st, ids) ==
    IF ids = {} THEN st
    ELSE ResumeEach(ResumeCall(st, Min(ids))[1], ids \ {Min(ids)})

\* DownloadManager.handleNetworkOnline
HandleNetworkOnline(st) ==
    IF ~autoRetry THEN st
    ELSE ResumeEach(st, {id \in Ids : /\ st.tasks[id] # NoTask
                                      /\ st.tasks[id].status = FAILED
                                      /\ st.tasks[id].error = NETWORK_ERROR})

RECURSIVE PauseEach(_, _)
PauseEach(st, ids) ==
    IF ids = {} THEN st
    ELSE PauseEach(PauseCall(st, Min(ids))[1], ids \ {Min(ids)})

\* DownloadManager.handleNetworkOffline
HandleNetworkOffline(st) ==
    PauseEach(st, {id \in Ids : st.tasks[id] # NoTask /\ st.tasks[id].status = DOWNLOADING})

\* EventEmitter.emit('online' | 'offline') of the monitor: every registered
\* listener runs, in registration order
RECURSIVE EmitNetwork(_, _, _)
EmitNetwork(st, signal, n) ==
    IF n = 0 THEN st
    ELSE EmitNetwork(IF signal = ONLINE THEN HandleNetworkOnline(st)
                     ELSE HandleNetworkOffline(st), signal, n - 1)

ProbeResults == {"connected", "notConnected", "error"}

\* this.emit('state-change', newState, oldState)
StateChange(newState, oldState) == [newState |-> newState, oldState |-> oldState]

\* variant: a probe that throws is taken for a probe that reports no
\* connectivity
CheckNetworkStateFailureIsOffline(st, result, listeners) ==
    LET newState == IF result = "connected" THEN ONLINE ELSE OFFLINE
    IN IF newState # st.currentState
       THEN <<EmitNetwork([st EXCEPT !.currentState = newState], newState, listeners),
              newState, <<StateChange(newState, st.currentState)>> >>
       ELSE <<st, "none", <<>> >>

\* NetworkMonitor.checkNetworkState after getNetworkStateAsync():
\* <<state, signal emitted, 'state-change' events emitted>>
CheckNetworkState(st, result, listeners) ==
    IF result = "error" THEN <<[st EXCEPT !.currentState = UNKNOWN], "none", <<>> >>
    ELSE LET newState == IF result = "connected" THEN ONLINE ELSE OFFLINE
         IN IF newState # st.currentState
            THEN <<EmitNetwork([st EXCEPT !.currentState = newState], newState, listeners),
                   newState, <<StateChange(newState, st.currentState)>> >>
            ELSE <<st, "none", <<>> >>

\* the signal emitted last, after a probe that emitted signal (or "none")
Emitted(before, signal) == IF signal = "none" THEN before ELSE signal

\* the periodic probe of startMonitoring's setInterval
Probe(result) ==
    /\ checkInterval
    /\ UserPending < maxPending
    /\ LET r == CheckNetworkState(Cur, result, handlers)
       IN Done(r[1], "probe", 0, r[2]) /\ lastSignal' = Emitted(lastSignal, r[2])
    /\ UNCHANGED <<maxConcurrent, clock, returned, isInitialized, nextId,
                   isMonitoring, checkInterval, handlers, autoRetry,
                   maxPending, writesMayFail>>

(* ----------------------------- initialize ----------------------------- *)

\* initialize(): returns at once when initialized, else awaits
\* storage.initialize()
InitializeCall ==
    /\ IF isInitialized
       THEN Done(Cur, "initialize", 0, "return")
       ELSE Done(Spawn(Cur, Call("initialize", 0, "storageInitialize", NoHandle, 0)),
                 "initialize", 0, "await")
    /\ Frame

\* a call of initialize() while no other one is suspended
Initialize ==
    /\ ~\E c \in InFlight : c.op = "initialize"
    /\ InitializeCall

\* a call of initialize() while an earlier one is suspended (a second
\* component that mounts its useDownloadManager hook): it passes the test of
\* line 187 as long as the earlier call has not reached line 209
InitializeOverlapping ==
    /\ \E c \in InFlight : c.op = "initialize"
    /\ UserPending < maxPending
    /\ InitializeCall

\* storage.initialize() came back: await storage.loadTasks()
InitStorageReady(c) ==
    /\ c.op = "initialize" /\ c.pc = "storageInitialize"
    /\ Done(Move(Cur, c, "loadTasks"), "initStorageReady", 0, "ok")
    /\ Frame

\* lines 194-198: a task saved as downloading is loaded as paused
Loaded(t) == IF t.status = DOWNLOADING THEN [t EXCEPT !.status = PAUSED] ELSE t

\* loadTasks() came back (with [] when the read failed): fill the registry,
\* then startMonitoring(): up to its await of the first probe, or, when the
\* monitor is running already, to its return
InitLoaded(c, readOk) ==
    /\ c.op = "initialize" /\ c.pc = "loadTasks"
    /\ LET savedTasks == IF readOk THEN {id \in Ids : disk[id] # NoTask} ELSE {}
           s1 == [Cur EXCEPT !.tasks = [id \in Ids |->
                      IF id \in savedTasks THEN Loaded(disk[id]) ELSE @[id]]]
       IN Done(Move(s1, c, IF isMonitoring THEN "isMonitoring" ELSE "checkNetworkState"),
               "initLoaded", 0, IF readOk THEN "ok" ELSE "readFailed")
    /\ isMonitoring' = TRUE
    /\ UNCHANGED <<maxConcurrent, clock, returned, isInitialized, nextId,
                   checkInterval, handlers, autoRetry, maxPending, writesMayFail,
                   lastSignal>>

\* startMonitoring() came back: when it made the first probe, apply the
\* result and arm the interval; register the two listeners,
\* isInitialized = true
InitMonitored(c, result) ==
    /\ c.op = "initialize" /\ c.pc \in {"checkNetworkState", "isMonitoring"}
    /\ LET r == IF c.pc = "checkNetworkState"
                THEN CheckNetworkState(Finish(Cur, c), result, handlers)
                ELSE <<Finish(Cur, c), "none", <<>> >>
       IN Done(r[1], "initialized", 0, r[2]) /\ lastSignal' = Emitted(lastSignal, r[2])
    /\ checkInterval' = (checkInterval \/ c.pc = "checkNetworkState")
    /\ handlers' = handlers + 1
    /\ isInitialized' = TRUE
    /\ UNCHANGED <<maxConcurrent, clock, returned, nextId, isMonitoring, autoRetry,
                   maxPending, writesMayFail>>

(* ------------------------------ cleanup ------------------------------- *)

\* cleanup() suspended at 'await this.pause(task.id)' of task id, with the
\* tasks of its list that are still to come
CleanupAwait(id, todo) ==
    [op |-> "cleanup", id |-> id, pc |-> "pause", h |-> NoHandle, pri |-> 0, todo |-> todo]

\* cleanup, lines 564-569, from the tasks of the list still to pause: pause()
\* of the next one up to its await (a pause() that throws ends cleanup), or,
\* past the last one, persistTasks(): <<state, outcome>>
CleanupLoop(st, todo, saveOk) ==
    IF todo = {}
    THEN <<Spawn(PersistTasks(st, saveOk), Call("cleanup", 0, "persistTasks", NoHandle, 0)),
           "persist">>
    ELSE LET r == PauseCall(st, Min(todo))
         IN IF r[2] = "Task not found" THEN <<st, "throw">>
            ELSE <<Spawn(r[1], CleanupAwait(Min(todo), todo \ {Min(todo)})), "pause">>

\* DownloadManager.cleanup up to its first await: the list is
\* getActiveDownloads() at the call
Cleanup(saveOk) ==
    /\ MayCall
    /\ LET r == CleanupLoop(Cur, {id \in Ids : /\ tasks[id] # NoTask
                                              /\ tasks[id].status = DOWNLOADING}, saveOk)
       IN Done(r[1], "cleanup", 0, r[2])
    /\ Frame

\* the pause() cleanup was awaiting has returned: next turn of the loop
CleanupPaused(c, saveOk) ==
    /\ c.op = "cleanup" /\ c.pc = "pause"
    /\ ~\E d \in InFlight : d.op = "pause" /\ d.id = c.id
    /\ LET r == CleanupLoop(Finish(Cur, c), c.todo, saveOk)
       IN Done(r[1], "cleanupPaused", c.id, r[2])
    /\ Frame

\* persistTasks() of cleanup came back: network.stopMonitoring(), return
CleanupPersisted(c) ==
    /\ c.op = "cleanup" /\ c.pc = "persistTasks"
    /\ Done(Finish(Cur, c), "cleanupReturns", 0, "ok")
    /\ isMonitoring' = FALSE
    /\ checkInterval' = FALSE
    /\ UNCHANGED <<maxConcurrent, clock, returned, isInitialized, nextId, handlers,
                   autoRetry, maxPending, writesMayFail, lastSignal>>

(* --------------------------- specifications --------------------------- *)

\* what a previous session may have left in AsyncStorage for one task
PersistedTasks ==
    { Task(PENDING, NoError, FALSE, 0),
      Task(DOWNLOADING, NoError, FALSE, 0),
      Task(DOWNLOADING, NoError, TRUE, 1),
      Task(PAUSED, NoError, TRUE, 1),
      Task(FAILED, NETWORK_ERROR, FALSE, 0),
      Task(FAILED, INSUFFICIENT_STORAGE, TRUE, 1),
      Task(COMPLETED, NoError, FALSE, 1) }

NoDisk == [id \in Ids |-> NoTask]

\* the state after getInstance(): nothing loaded, nothing monitored
InitEngine(d) ==
    /\ queue = <<>>
    /\ active = {}
    /\ clock = 0
    /\ returned = <<>>
    /\ tasks = [id \in Ids |-> NoTask]
    /\ downloads = [id \in Ids |-> NoHandle]
    /\ isInitialized = FALSE
    /\ calls = EmptyBag
    /\ disk = d
    /\ nextId = 1 + Cardinality({id \in Ids : d[id] # NoTask})
    /\ delFile = [id \in Ids |-> 0]
    /\ delMeta = [id \in Ids |-> 0]
    /\ currentState = UNKNOWN
    /\ isMonitoring = FALSE
    /\ checkInterval = FALSE
    /\ handlers = 0
    /\ lastSignal = "none"
    /\ last = Step("new", 0, "ok", <<>>)

\* a session on an empty store
Init ==
    /\ maxConcurrent \in 1..MaxConcurrentBound
    /\ autoRetry = TRUE
    /\ maxPending = MaxPending
    /\ writesMayFail = FALSE
    /\ InitEngine(NoDisk)

EngineNext ==
    \/ Initialize
    \/ \E c \in InFlight : InitStorageReady(c)
    \/ \E c \in InFlight, readOk \in BOOLEAN : InitLoaded(c, readOk)
    \/ \E c \in InFlight, result \in ProbeResults : InitMonitored(c, result)
    \/ \E id \in UserIds : Pause(id)
    \/ \E c \in InFlight, ok \in BOOLEAN, saveOk \in SaveOutcomes : PauseReturns(c, ok, saveOk)
    \/ \E c \in InFlight : PausePersisted(c)
    \/ \E id \in UserIds : Resume(id)
    \/ \E id \in UserIds : Cancel(id)
    \/ \E c \in InFlight, ok \in BOOLEAN : CancelPauseReturns(c, ok)
    \/ \E c \in InFlight : CancelFileDeleted(c)
    \/ \E c \in InFlight, saveOk \in SaveOutcomes : CancelMetaDeleted(c, saveOk)
    \/ \E c \in InFlight : CancelPersisted(c)
    \/ \E c \in InFlight, hasSpace \in BOOLEAN, saveOk \in SaveOutcomes :
           StorageChecked(c, hasSpace, saveOk)
    \/ \E c \in InFlight, saveOk \in SaveOutcomes : TransferSucceeds(c, saveOk)
    \/ \E c \in InFlight : SuccessPersisted(c)
    \/ \E c \in InFlight, saveOk \in SaveOutcomes : TransferThrows(c, saveOk)
    \/ \E c \in InFlight : ProgressCallback(c, TRUE, 0, 1)
    \/ \E result \in ProbeResults : Probe(result)

Next ==
    \/ EngineNext
    \/ \E url \in Urls, pri \in Priorities :
          (ValidateUrl(url) => nextId <= NumTasks) /\ Download(url, pri)
    \/ \E c \in InFlight : DownloadSaved(c)

Spec == Init /\ [][Next]_vars

\* a session that finds task 1 of an earlier session in the store and
\* submits nothing new
InitRestored ==
    /\ maxConcurrent \in 1..MaxConcurrentBound
    /\ autoRetry = TRUE
    /\ maxPending = MaxOverlap
    /\ writesMayFail = FALSE
    /\ \E t \in PersistedTasks : InitEngine([id \in Ids |-> IF id = 1 THEN t ELSE NoTask])

SpecRestored == InitRestored /\ [][EngineNext]_vars

\* a session that finds task 1 of an earlier session in the store, in which
\* initialize() calls may overlap and tasks are resumed
NextReinit ==
    \/ Initialize
    \/ InitializeOverlapping
    \/ \E c \in InFlight : InitStorageReady(c)
    \/ \E c \in InFlight, readOk \in BOOLEAN : InitLoaded(c, readOk)
    \/ \E c \in InFlight, result \in ProbeResults : InitMonitored(c, result)
    \/ \E id \in UserIds : Resume(id)
    \/ \E c \in InFlight, hasSpace \in BOOLEAN, saveOk \in SaveOutcomes :
           StorageChecked(c, hasSpace, saveOk)
    \/ \E c \in InFlight, saveOk \in SaveOutcomes : TransferSucceeds(c, saveOk)
    \/ \E c \in InFlight : SuccessPersisted(c)
    \/ \E c \in InFlight, saveOk \in SaveOutcomes : TransferThrows(c, saveOk)
    \/ \E c \in InFlight : ProgressCallback(c, TRUE, 0, 1)
    \/ \E result \in ProbeResults : Probe(result)

SpecReinit == InitRestored /\ [][NextReinit]_vars

\* a session on an empty store whose only calls are submissions, which may
\* overlap
InitSubmit ==
    /\ maxConcurrent \in 1..MaxConcurrentBound
    /\ autoRetry = TRUE
    /\ maxPending = MaxOverlap
    /\ writesMayFail = FALSE
    /\ InitEngine(NoDisk)

NextSubmit ==
    \/ Initialize
    \/ \E c \in InFlight : InitStorageReady(c)
    \/ \E c \in InFlight, readOk \in BOOLEAN : InitLoaded(c, readOk)
    \/ \E c \in InFlight, result \in ProbeResults : InitMonitored(c, result)
    \/ \E url \in Urls, pri \in Priorities :
          (ValidateUrl(url) => nextId <= NumTasks) /\ Download(url, pri)
    \/ \E c \in InFlight : DownloadSaved(c)
    \/ \E c \in InFlight, saveOk \in SaveOutcomes : TransferSucceeds(c, saveOk)
    \/ \E c \in InFlight : SuccessPersisted(c)
    \/ \E c \in InFlight, saveOk \in SaveOutcomes : TransferThrows(c, saveOk)
    \/ \E c \in InFlight : ProgressCallback(c, TRUE, 0, 1)

SpecSubmit == InitSubmit /\ [][NextSubmit]_vars

\* a session on an empty store that submits downloads, some of which wait in
\* the queue, and whose network comes and goes; automatic retry is on or off
InitOnline ==
    /\ maxConcurrent \in 1..MaxConcurrentBound
    /\ autoRetry \in BOOLEAN
    /\ maxPending = MaxPending
    /\ writesMayFail = FALSE
    /\ InitEngine(NoDisk)

NextOnline ==
    \/ Initialize
    \/ \E c \in InFlight : InitStorageReady(c)
    \/ \E c \in InFlight, readOk \in BOOLEAN : InitLoaded(c, readOk)
    \/ \E c \in InFlight, result \in ProbeResults : InitMonitored(c, result)
    \/ \E url \in Urls : Download(url, 0)
    \/ \E c \in InFlight : DownloadSaved(c)
    \/ \E c \in InFlight, hasSpace \in BOOLEAN, saveOk \in SaveOutcomes :
           StorageChecked(c, hasSpace, saveOk)
    \/ \E c \in InFlight, saveOk \in SaveOutcomes : TransferSucceeds(c, saveOk)
    \/ \E c \in InFlight : SuccessPersisted(c)
    \/ \E c \in InFlight, saveOk \in SaveOutcomes : TransferThrows(c, saveOk)
    \/ \E c \in InFlight : ProgressCallback(c, TRUE, 0, 1)
    \/ \E result \in ProbeResults : Probe(result)

SpecOnline == InitOnline /\ [][NextOnline]_vars

\* a session on an empty store whose transfers report their byte counts at
\* any pace; every task has one attempt (nothing is paused or resumed)
NextProgress ==
    \/ Initialize
    \/ \E c \in InFlight : InitStorageReady(c)
    \/ \E c \in InFlight, readOk \in BOOLEAN : InitLoaded(c, readOk)
    \/ \E c \in InFlight, result \in ProbeResults : InitMonitored(c, result)
    \/ \E url \in Urls :
          (ValidateUrl(url) => nextId <= NumTasks) /\ Download(url, 0)
    \/ \E c \in InFlight : DownloadSaved(c)
    \/ \E c \in InFlight, saveOk \in SaveOutcomes : TransferSucceeds(c, saveOk)
    \/ \E c \in InFlight : SuccessPersisted(c)
    \/ \E c \in InFlight, saveOk \in SaveOutcomes : TransferThrows(c, saveOk)
    \/ \E c \in InFlight, elapsed \in BOOLEAN, written \in 0..MaxBytes :
           ProgressCallback(c, elapsed, written, MaxBytes)
    \/ \E t \in InFlight : ThrottleTimeout(t)

SpecProgress == Init /\ [][NextProgress]_vars

\* the sizes a transfer reports: the size of the file or, when the server
\* sends no length, 0
ExpectedSizes == {0, MaxBytes}

\* transfers that report progress with a known or an unknown size, every
\* callback being let through by the throttle
NextUnknownSize ==
    \/ Initialize
    \/ \E c \in InFlight : InitStorageReady(c)
    \/ \E c \in InFlight, readOk \in BOOLEAN : InitLoaded(c, readOk)
    \/ \E c \in InFlight, result \in ProbeResults : InitMonitored(c, result)
    \/ nextId <= NumTasks /\ Download("https", 0)
    \/ \E c \in InFlight : DownloadSaved(c)
    \/ \E c \in InFlight, saveOk \in SaveOutcomes : TransferSucceeds(c, saveOk)
    \/ \E c \in InFlight : SuccessPersisted(c)
    \/ \E c \in InFlight, written \in 0..MaxBytes, total \in ExpectedSizes :
           ProgressCallback(c, TRUE, written, total)

SpecUnknownSize == Init /\ [][NextUnknownSize]_vars

\* a session on an empty store that is closed with cleanup(); a pauseAsync()
\* succeeds whenever its transfer is running
NextCleanup ==
    \/ Initialize
    \/ \E c \in InFlight : InitStorageReady(c)
    \/ \E c \in InFlight, readOk \in BOOLEAN : InitLoaded(c, readOk)
    \/ \E c \in InFlight, result \in ProbeResults : InitMonitored(c, result)
    \/ nextId <= NumTasks /\ Download("https", 0)
    \/ \E c \in InFlight : DownloadSaved(c)
    \/ \E c \in InFlight, saveOk \in SaveOutcomes : TransferSucceeds(c, saveOk)
    \/ \E c \in InFlight : SuccessPersisted(c)
    \/ \E c \in InFlight, saveOk \in SaveOutcomes : TransferThrows(c, saveOk)
    \/ \E c \in InFlight, saveOk \in SaveOutcomes :
           c.op = "pause" /\ PauseReturns(c, Running(Cur, c.id, c.h), saveOk)
    \/ \E c \in InFlight : PausePersisted(c)
    \/ \E saveOk \in SaveOutcomes : Cleanup(saveOk)
    \/ \E c \in InFlight, saveOk \in SaveOutcomes : CleanupPaused(c, saveOk)
    \/ \E c \in InFlight : CleanupPersisted(c)

SpecCleanup == Init /\ [][NextCleanup]_vars

\* a session on an empty store in which a write to AsyncStorage may throw
InitWrites ==
    /\ maxConcurrent \in 1..MaxConcurrentBound
    /\ autoRetry = TRUE
    /\ maxPending = MaxPending
    /\ writesMayFail = TRUE
    /\ InitEngine(NoDisk)

\* submissions, pauses, resumes and cancels, and transfers that end; the
\* network is probed once, by initialize
NextWrites ==
    \/ Initialize
    \/ \E c \in InFlight : InitStorageReady(c)
    \/ \E c \in InFlight, readOk \in BOOLEAN : InitLoaded(c, readOk)
    \/ \E c \in InFlight, result \in ProbeResults : InitMonitored(c, result)
    \/ (nextId <= NumTasks /\ Download("https", 0))
    \/ \E c \in InFlight : DownloadSaved(c)
    \/ \E id \in UserIds : Pause(id)
    \/ \E c \in InFlight, ok \in BOOLEAN, saveOk \in SaveOutcomes : PauseReturns(c, ok, saveOk)
    \/ \E c \in InFlight : PausePersisted(c)
    \/ \E id \in UserIds : Resume(id)
    \/ \E id \in UserIds : Cancel(id)
    \/ \E c \in InFlight, ok \in BOOLEAN : CancelPauseReturns(c, ok)
    \/ \E c \in InFlight : CancelFileDeleted(c)
    \/ \E c \in InFlight, saveOk \in SaveOutcomes : CancelMetaDeleted(c, saveOk)
    \/ \E c \in InFlight : CancelPersisted(c)
    \/ \E c \in InFlight, saveOk \in SaveOutcomes : TransferSucceeds(c, saveOk)
    \/ \E c \in InFlight : SuccessPersisted(c)
    \/ \E c \in InFlight, saveOk \in SaveOutcomes : TransferThrows(c, saveOk)

SpecWrites == InitWrites /\ [][NextWrites]_vars

(* ------------------ the queue on its own (DownloadQueue) -------------- *)

EngineIdle == UNCHANGED <<engineVars, maxConcurrent, autoRetry, maxPending, writesMayFail>>

\* queue.add(taskId, priority)
QueueAdd(taskId, priority) ==
    /\ clock < MaxAdds
    /\ queue' = QAdd(queue, taskId, priority, clock)
    /\ clock' = clock + 1
    /\ returned' = <<>>
    /\ last' = Step("add", taskId, "ok", <<>>)
    /\ UNCHANGED active
    /\ EngineIdle

\* queue.getNext()
QueueGetNext ==
    /\ IF CanGetNext(queue, active, maxConcurrent)
       THEN /\ queue' = GetNext(Cur).queue
            /\ active' = GetNext(Cur).active
            /\ returned' = Append(returned, Head(queue))
            /\ last' = Step("getNext", Head(queue).taskId, "item", <<>>)
       ELSE /\ UNCHANGED <<queue, active, returned>>
            /\ last' = Step("getNext", 0, "null", <<>>)
    /\ UNCHANGED clock
    /\ EngineIdle

\* queue.complete(taskId)
QueueComplete(taskId) ==
    /\ active' = QComplete(Cur, taskId).active
    /\ last' = Step("complete", taskId, "ok", <<>>)
    /\ UNCHANGED <<queue, clock, returned>>
    /\ EngineIdle

\* queue.remove(taskId)
QueueRemove(taskId) ==
    /\ queue' = QRemove(Cur, taskId).queue
    /\ active' = QRemove(Cur, taskId).active
    /\ last' = Step("remove", taskId, "ok", <<>>)
    /\ UNCHANGED <<clock, returned>>
    /\ EngineIdle

\* queue.clear()
QueueClear ==
    /\ queue' = <<>>
    /\ active' = {}
    /\ returned' = <<>>
    /\ last' = Step("clear", 0, "ok", <<>>)
    /\ UNCHANGED clock
    /\ EngineIdle

NextQueue ==
    \/ \E id \in UserIds, p \in QueuePriorities : QueueAdd(id, p)
    \/ QueueGetNext
    \/ \E id \in UserIds : QueueComplete(id)
    \/ \E id \in UserIds : QueueRemove(id)
    \/ QueueClear

SpecQueue == Init /\ [][NextQueue]_vars

(* ------------------------------- claims ------------------------------- *)

\* C1: the items getNext() hands out after the last add() come in
\* non-increasing priority, and items of equal priority in the order they
\* were added.
C1_PriorityThenFifo ==
    \A i, j \in 1..Len(returned) :
        i < j => \/ returned[i].priority > returned[j].priority
                 \/ /\ returned[i].priority = returned[j].priority
                    /\ returned[i].addedAt < returned[j].addedAt

\* C1 happens: three items came out, the first added after the second and
\* of a higher priority, the second and third of one priority
C1_Witness ==
    /\ Len(returned) = 3
    /\ returned[1].priority > returned[2].priority
    /\ returned[1].addedAt > returned[2].addedAt
    /\ returned[2].priority = returned[3].priority

\* C2: the admitted set never holds more than maxConcurrent ids.
C2_ActiveWithinLimit == Cardinality(active) <= maxConcurrent

\* C2 happens: getNext() refused a waiting item because the limit was reached
C2_Witness ==
    /\ last.op = "getNext" /\ last.res = "null"
    /\ queue # <<>>
    /\ Cardinality(active) = maxConcurrent

\* ids of the items waiting in the queue
QueuedIds == {queue[i].taskId : i \in 1..Len(queue)}

\* C3: in every state of the engine, the states between awaits included, an
\* id is in the admitted set exactly when the registry holds its task as
\* DOWNLOADING.
C3_ActiveIffDownloading ==
    \A id \in Ids :
        id \in active <=> (tasks[id] # NoTask /\ tasks[id].status = DOWNLOADING)

C5_DeletedExactlyOnce ==
    /\ \A id \in Ids : delFile[id] <= 1 /\ delMeta[id] <= 1
    /\ last.op = "cancelReturns" =>
          /\ tasks[last.id] = NoTask
          /\ delFile[last.id] = 1 /\ delMeta[last.id] = 1

\* C6: when cancel(id) returns, the id is in neither the queue, the admitted
\* set nor the registry, and deleteFile and deleteMetadata have been called.
C6_CancelLeavesNothing ==
    last.op = "cancelReturns" =>
        /\ last.id \notin QueuedIds
        /\ last.id \notin active
        /\ tasks[last.id] = NoTask
        /\ delFile[last.id] >= 1 /\ delMeta[last.id] >= 1

\* C7, as stated: after pauseAsync() of pause(id) threw, the task is Paused
\* and its slot is free.
C7_PauseThrowStillPauses ==
    (last.op = "pauseReturns" /\ last.res = "throw") =>
        /\ tasks[last.id] # NoTask
        /\ tasks[last.id].status = PAUSED
        /\ last.id \notin active

\* C7, amended: the step in which pauseAsync() of pause(id) throws swallows
\* the error and changes nothing: registry, queue, admitted set and handles
\* stay as they were, and no event is emitted.
C7_PauseThrowChangesNothing ==
    [][(last'.op = "pauseReturns" /\ last'.res = "throw") =>
          /\ UNCHANGED <<tasks, queue, active, downloads>>
          /\ last'.events = <<>>]_vars

\* pauseAsync() threw while the transfer goes on: the task is still
\* DOWNLOADING, admitted, with its handle
C7_Witness ==
    /\ last.op = "pauseReturns" /\ last.res = "throw"
    /\ tasks[last.id] # NoTask
    /\ tasks[last.id].status = DOWNLOADING
    /\ last.id \in active
    /\ downloads[last.id] # NoHandle
    /\ Running(Cur, last.id, downloads[last.id])

\* the queue holds its items by non-increasing priority
QueueSorted ==
    \A i, j \in 1..Len(queue) : i < j => queue[i].priority >= queue[j].priority

\* C8, as stated: with limit 1, of two submissions with priorities 0 and 5
\* the priority-0 one is never admitted while the priority-5 one has not
\* been.
C8_Priority5First ==
    \A c \in InFlight :
        (/\ maxConcurrent = 1
         /\ c.op = "download" /\ c.pri = 5
         /\ last.op = "downloadSaved" /\ last.res = 0) => last.id \notin active

\* C8, amended: a submission is enqueued when its saveMetadata returns and
\* the queue is processed in the same step, so it is admitted at once when a
\* slot is free, whatever its priority; it waits only when every slot is
\* taken, and the waiting items are held by non-increasing priority.
C8_AdmittedOnEnqueue ==
    /\ QueueSorted
    /\ last.op = "downloadSaved" =>
          \/ /\ last.id \in active
             /\ tasks[last.id] # NoTask => tasks[last.id].status = DOWNLOADING
          \/ /\ Cardinality(active) >= maxConcurrent
             /\ last.id \in QueuedIds

\* with limit 1, the priority-0 submission made second has been admitted
\* while the priority-5 submission made first still awaits its saveMetadata
C8_Witness ==
    /\ maxConcurrent = 1
    /\ last.op = "downloadSaved" /\ last.res = 0
    /\ active = {last.id}
    /\ tasks[last.id].status = DOWNLOADING
    /\ \E c \in InFlight : c.op = "download" /\ c.pri = 5 /\ c.id < last.id

\* C9: when initialize() has loaded the persisted registry, no task is
\* DOWNLOADING, every task persisted as DOWNLOADING is PAUSED, and the
\* admitted set is empty.
C9_LoadedNeverDownloading ==
    (last.op = "initLoaded" /\ last.res = "ok") =>
        /\ \A id \in Ids : tasks[id] # NoTask => tasks[id].status # DOWNLOADING
        /\ \A id \in Ids : disk[id] # NoTask /\ disk[id].status = DOWNLOADING =>
                               tasks[id] # NoTask /\ tasks[id].status = PAUSED
        /\ active = {}

\* SpecRestored with every awaited promise settling in the end: each
\* continuation that stays enabled is run
Fairness ==
    /\ WF_vars(\E c \in InFlight : InitStorageReady(c))
    /\ WF_vars(\E c \in InFlight, readOk \in BOOLEAN : InitLoaded(c, readOk))
    /\ WF_vars(\E c \in InFlight, result \in ProbeResults : InitMonitored(c, result))
    /\ WF_vars(\E c \in InFlight, ok \in BOOLEAN, saveOk \in SaveOutcomes :
                   PauseReturns(c, ok, saveOk))
    /\ WF_vars(\E c \in InFlight : PausePersisted(c))
    /\ WF_vars(\E c \in InFlight, ok \in BOOLEAN : CancelPauseReturns(c, ok))
    /\ WF_vars(\E c \in InFlight : CancelFileDeleted(c))
    /\ WF_vars(\E c \in InFlight, saveOk \in SaveOutcomes : CancelMetaDeleted(c, saveOk))
    /\ WF_vars(\E c \in InFlight : CancelPersisted(c))
    /\ WF_vars(\E c \in InFlight, hasSpace \in BOOLEAN, saveOk \in SaveOutcomes :
                   StorageChecked(c, hasSpace, saveOk))
    /\ WF_vars(\E c \in InFlight, saveOk \in SaveOutcomes :
                   TransferSucceeds(c, saveOk) \/ TransferThrows(c, saveOk))
    /\ WF_vars(\E c \in InFlight : SuccessPersisted(c))

SpecRestoredFair == SpecRestored /\ Fairness

\* C10: after the offline signal, a task whose pauseAsync() succeeded
\* eventually is PAUSED with its slot free (or was cancelled meanwhile).
C10_OfflinePauseReachesPaused ==
    \A id \in Ids :
        (last.op = "pauseReturns" /\ last.res = "ok" /\ last.id = id /\ currentState = OFFLINE)
            ~> \/ tasks[id] = NoTask
               \/ tasks[id].status = PAUSED /\ id \notin active
\* a step in which the monitor signals the change to online
OnlineTransition == last'.op \in {"probe", "initialized"} /\ last'.res = ONLINE

\* the tasks handleNetworkOnline picks: failed with the code NETWORK_ERROR
NetworkFailed(id) ==
    /\ tasks[id] # NoTask
    /\ tasks[id].status = FAILED
    /\ tasks[id].error = NETWORK_ERROR

\* the task was resumed in the step: queued anew, and now waiting, or
\* admitted and at the storage check, or admitted and transferring
Resumed(id) ==
    /\ \E i \in 1..Len(last'.events) :
           last'.events[i] = Event(EV_STATUS_CHANGE, id, PENDING, FAILED)
    /\ tasks'[id].error = NoError
    /\ \/ tasks'[id].status = PENDING /\ id \in QueuedIds' \cup active'
       \/ tasks'[id].status = DOWNLOADING /\ id \in active'

\* C11: on a change to online with automatic retry, exactly the tasks failed
\* with NETWORK_ERROR are resumed and every other task is left as it was;
\* without automatic retry no task changes
C11_OnlyNetworkFailedChange ==
    [][OnlineTransition =>
         \A id \in Ids :
            IF autoRetry /\ NetworkFailed(id) THEN Resumed(id)
            ELSE tasks'[id] = tasks[id]]_vars

\* the step emitted a progress event for the task
ProgressEmitted(id) ==
    \E i \in 1..Len(last'.events) : last'.events[i] = Event(EV_PROGRESS, id, "", "")

\* C12: within the one attempt of a task, the byte count of a progress event
\* is not below the byte count of the progress event before it, whether the
\* throttle emits at once or from its timer
C12_BytesNeverDecrease ==
    [][\A id \in Ids :
          ProgressEmitted(id) =>
              tasks'[id].downloadedBytes >= tasks[id].downloadedBytes]_vars

\* the events of the step just taken that are about the task
EventsOf(id) == {i \in 1..Len(last.events) : last.events[i].id = id}

\* C13: a progress event is never emitted for a task whose attempt has ended
\* with its completed or error event (every task here has one attempt, so
\* that its status is then COMPLETED or FAILED), a trailing emission of the
\* throttle included; and the completed or error event comes after the
\* status-change event to COMPLETED or FAILED
C13_ProgressThenStatusThenEnd ==
    \A id \in Ids :
        /\ (\E i \in EventsOf(id) : last.events[i].ev = EV_PROGRESS)
               => tasks[id].status \notin {COMPLETED, FAILED}
        /\ \A i \in EventsOf(id) :
               /\ last.events[i].ev = EV_COMPLETED
                     => \E j \in 1..(i - 1) :
                            /\ last.events[j].ev = EV_STATUS_CHANGE
                            /\ last.events[j].id = id
                            /\ last.events[j].status = COMPLETED
               /\ last.events[i].ev = EV_ERROR
                     => \E j \in 1..(i - 1) :
                            /\ last.events[j].ev = EV_STATUS_CHANGE
                            /\ last.events[j].id = id
                            /\ last.events[j].status = FAILED

\* C14: a download(url) whose url is not a well-formed http or https url
\* fails with INVALID_URL and changes nothing: registry, queue, admitted
\* set, handles, suspended calls and the persisted snapshot stay as they
\* were, no id is used up and no event is emitted
C14_InvalidUrlNoEffect ==
    [][\A url \in Urls \ {"http", "https"}, pri \in Priorities :
          Download(url, pri) =>
              /\ last'.res = "INVALID_URL"
              /\ last'.events = <<>>
              /\ UNCHANGED <<tasks, queue, active, downloads, calls, disk, nextId>>]_vars

\* a download with a bad url has just been rejected while a task of an
\* earlier download is in the registry
C14_Witness ==
    /\ last.op = "download" /\ last.res = "INVALID_URL"
    /\ \E id \in Ids : tasks[id] # NoTask

\* C15: pause, resume and cancel of an id the registry does not hold each
\* fail with 'Task not found' and leave registry, queue, admitted set,
\* handles, suspended calls and the store as they were
C15_UnknownIdNotFound ==
    [][\A id \in UserIds :
          (tasks[id] = NoTask /\ (Pause(id) \/ Resume(id) \/ Cancel(id))) =>
              /\ last'.res = "Task not found"
              /\ last'.events = <<>>
              /\ UNCHANGED <<tasks, queue, active, downloads, calls, disk,
                             delFile, delMeta>>]_vars

\* cancel has just been refused for an id that is not in the registry, while
\* the transfer of another task runs
C15_Witness ==
    /\ last.op = "cancel" /\ last.res = "Task not found"
    /\ tasks[last.id] = NoTask
    /\ active # {}

\* C16: resume(id) of a paused or failed task while the monitor's state is
\* not online (offline or unknown) is refused with 'No network connection'
\* and changes nothing: the task keeps its status and its error, the queue
\* gets no entry, no event is emitted
C16_ResumeOfflineRefused ==
    [][\A id \in UserIds :
          (/\ tasks[id] # NoTask
           /\ tasks[id].status \in {PAUSED, FAILED}
           /\ currentState # ONLINE
           /\ Resume(id)) =>
              /\ last'.res = "No network connection"
              /\ last'.events = <<>>
              /\ UNCHANGED <<tasks, queue, active, downloads, calls, disk>>]_vars

\* the resume of a task failed on the network has just been refused while
\* the monitor says offline
C16_Witness ==
    /\ last.op = "resume" /\ last.res = "No network connection"
    /\ tasks[last.id] # NoTask
    /\ tasks[last.id].status = FAILED
    /\ tasks[last.id].error = NETWORK_ERROR
    /\ currentState = OFFLINE

\* C17: a task whose transfer succeeded is COMPLETED with progress 100, its
\* completedAt set, no resume token and its id out of the admitted set, and
\* it stays so in every later state (no task is cancelled in this session)
C17_CompletedStaysAt100 ==
    \A id \in Ids :
        (tasks[id] # NoTask /\ tasks[id].status = COMPLETED) =>
            /\ tasks[id].progress = 100
            /\ tasks[id].completedAt
            /\ ~tasks[id].resumeData
            /\ id \notin active

\* C18: when the transfer of a DOWNLOADING task throws, the task ends FAILED
\* with its error stored, its id out of the admitted set and its handle
\* dropped, the status change and then the error event are emitted, and the
\* queue is advanced: no task waits while a slot is free
C18_ThrowFailsTask ==
    [][\A c \in InFlight, saveOk \in SaveOutcomes :
          (/\ c.op = "start"
           /\ tasks[c.id] # NoTask
           /\ tasks[c.id].status = DOWNLOADING
           /\ TransferThrows(c, saveOk)) =>
              /\ tasks'[c.id].status = FAILED
              /\ tasks'[c.id].error = NETWORK_ERROR
              /\ c.id \notin active'
              /\ downloads'[c.id] = NoHandle
              /\ Len(last'.events) >= 2
              /\ last'.events[1] = Event(EV_STATUS_CHANGE, c.id, FAILED, DOWNLOADING)
              /\ last'.events[2] = Event(EV_ERROR, c.id, "", "")
              /\ ~(queue' # <<>> /\ Cardinality(active') < maxConcurrent)]_vars

\* C19: a pause(id) of a DOWNLOADING task whose pauseAsync() succeeded ends
\* with the task PAUSED, its resume token stored, its id out of the admitted
\* set and its handle dropped; a pause(id) of a task in any other state
\* changes nothing
C19_PauseEndsPaused ==
    [][/\ last'.op = "pausePersisted" =>
            /\ tasks'[last'.id] # NoTask
            /\ tasks'[last'.id].status = PAUSED
            /\ tasks'[last'.id].resumeData
            /\ last'.id \notin active'
            /\ downloads'[last'.id] = NoHandle
       /\ \A id \in UserIds :
            (tasks[id] # NoTask /\ tasks[id].status # DOWNLOADING /\ Pause(id)) =>
                /\ last'.res = "return"
                /\ last'.events = <<>>
                /\ UNCHANGED <<tasks, queue, active, downloads, calls, disk>>]_vars

\* no operation of the engine is part-way through: nothing is suspended but
\* running transfers and timers of their throttles
AtRest ==
    \A c \in InFlight : (c.op = "start" /\ c.pc = "downloadAsync") \/ c.op = "timeout"

C21_SnapshotFollowsRegistry ==
    AtRest => \A id \in Ids : disk[id].status = tasks[id].status

\* the call goes on after its persistTasks(): it is suspended there, and its
\* continuation processes the queue
GoesOn(c) ==
    \E d \in BagToSet(calls') : d.op = c.op /\ d.id = c.id /\ d.pc = "persistTasks"

\* C22: when the write of the snapshot fails in a pause, a cancel, a success
\* or a failure of a transfer, the snapshot stays as it was, the change in
\* memory is made all the same (PAUSED with its token, out of the registry,
\* COMPLETED, FAILED; slot released), the operation does not fail, and the
\* queue is advanced at once or by the continuation of the operation
C22_FailedWriteSwallowed ==
    [][\A c \in InFlight :
          (c.op \in {"start", "pause", "cancel"} /\ tasks[c.id] # NoTask) =>
              /\ TransferThrows(c, FALSE) =>
                    /\ disk' = disk
                    /\ tasks'[c.id].status = FAILED
                    /\ c.id \notin active'
                    /\ ~(queue' # <<>> /\ Cardinality(active') < maxConcurrent)
                    /\ last'.res = "throw"
              /\ TransferSucceeds(c, FALSE) =>
                    /\ disk' = disk
                    /\ tasks'[c.id].status = COMPLETED
                    /\ c.id \notin active'
                    /\ GoesOn(c)
                    /\ last'.res = "ok"
              /\ PauseReturns(c, TRUE, FALSE) =>
                    /\ disk' = disk
                    /\ tasks'[c.id].status = PAUSED
                    /\ tasks'[c.id].resumeData
                    /\ GoesOn(c)
                    /\ last'.res = "ok"
              /\ CancelMetaDeleted(c, FALSE) =>
                    /\ disk' = disk
                    /\ tasks'[c.id] = NoTask
                    /\ GoesOn(c)
                    /\ last'.res = "ok"]_vars

\* a transfer has just failed and the write of the snapshot with it: the
\* task is FAILED in memory and not in the snapshot, and the task that
\* waited has its slot
C22_Witness ==
    /\ writesMayFail
    /\ last.op = "transferThrows"
    /\ tasks[last.id] # NoTask
    /\ tasks[last.id].status = FAILED
    /\ disk[last.id].status # FAILED
    /\ \E i \in 1..Len(last.events) :
           /\ last.events[i].id # last.id
           /\ last.events[i].status = DOWNLOADING

\* handleNetworkOnline has resumed the task in the step
AutoRetried(id) ==
    /\ OnlineTransition
    /\ \E i \in 1..Len(last'.events) :
           last'.events[i] = Event(EV_STATUS_CHANGE, id, PENDING, FAILED)

\* SpecOnline with every awaited promise settling in the end and the timer
\* of setInterval (lines 618-620) firing again and again
FairnessOnline ==
    /\ WF_vars(\E c \in InFlight : InitStorageReady(c))
    /\ WF_vars(\E c \in InFlight, readOk \in BOOLEAN : InitLoaded(c, readOk))
    /\ WF_vars(\E c \in InFlight, result \in ProbeResults : InitMonitored(c, result))
    /\ WF_vars(\E c \in InFlight : DownloadSaved(c))
    /\ WF_vars(\E c \in InFlight, hasSpace \in BOOLEAN, saveOk \in SaveOutcomes :
                   StorageChecked(c, hasSpace, saveOk))
    /\ WF_vars(\E c \in InFlight, saveOk \in SaveOutcomes :
                   TransferSucceeds(c, saveOk) \/ TransferThrows(c, saveOk))
    /\ WF_vars(\E c \in InFlight : SuccessPersisted(c))
    /\ WF_vars(\E result \in ProbeResults : Probe(result))

SpecOnlineFair == SpecOnline /\ FairnessOnline

\* C23: the automatic retries of a task are bounded by maxRetryAttempts,
\* whatever the failures and the changes of the network: in every behaviour
\* each task is retried finitely often, so that from some point on no step
\* retries it
C23_RetriesBounded ==
    \A id \in Ids : <>[][~AutoRetried(id)]_vars

\* C24: every id in the queue is the id of a task of the registry that is
\* PENDING and not in the admitted set
C24_QueuedArePending ==
    \A id \in QueuedIds :
        /\ tasks[id] # NoTask
        /\ tasks[id].status = PENDING
        /\ id \notin active

\* C25: a task carries a resume token only while it is PAUSED
C25_TokenOnlyWhilePaused ==
    \A id \in Ids :
        (tasks[id] # NoTask /\ tasks[id].resumeData) => tasks[id].status = PAUSED

\* C26: a task of the registry carries an error only while it is FAILED
C26_ErrorOnlyWhileFailed ==
    \A id \in Ids :
        (tasks[id] # NoTask /\ tasks[id].error # NoError) => tasks[id].status = FAILED

\* the step runs lines 419-420 for the task: status DOWNLOADING is reported
\* and startedAt is assigned Date.now()
StartedAtWritten(id) ==
    \E i \in DOMAIN last'.events :
        /\ last'.events[i].ev = EV_STATUS_CHANGE
        /\ last'.events[i].id = id
        /\ last'.events[i].status = DOWNLOADING

\* C27: once startedAt of a task has a value, no later admission of the task
\* writes it again
C27_StartedAtWrittenOnce ==
    [][\A id \in Ids :
          (tasks[id] # NoTask /\ tasks[id].startedAt) => ~StartedAtWritten(id)]_vars

\* C28: the progress of every task is an integer in 0..100, whatever size the
\* progress callbacks report
C28_ProgressInRange ==
    \A id \in Ids : tasks[id] # NoTask => tasks[id].progress \in 0..100

\* C29: when the storage check of an admitted task of the registry reports
\* too little space, the step takes the task from PENDING to FAILED with
\* INSUFFICIENT_STORAGE: its status is never DOWNLOADING, it gets no transfer
\* handle, its startedAt is left as it was, its slot is released and the
\* queue is advanced
C29_NoSpaceFailsUnstarted ==
    [][\A c \in InFlight, saveOk \in SaveOutcomes :
          (/\ c.op = "start"
           /\ tasks[c.id] # NoTask
           /\ StorageChecked(c, FALSE, saveOk)) =>
              /\ tasks[c.id].status = PENDING
              /\ tasks'[c.id].status = FAILED
              /\ tasks'[c.id].error = INSUFFICIENT_STORAGE
              /\ ~StartedAtWritten(c.id)
              /\ tasks'[c.id].startedAt = tasks[c.id].startedAt
              /\ downloads'[c.id] = NoHandle
              /\ \A d \in BagToSet(calls') : ~(d.op = "start" /\ d.id = c.id)
              /\ c.id \notin active'
              /\ ~(queue' # <<>> /\ Cardinality(active') < maxConcurrent)]_vars

\* C30: a probe that throws leaves the tracker UNKNOWN and emits no signal, so
\* that no listener runs (no task, queue, slot or call changes); a step that
\* emits the offline signal is a probe that reported no connectivity
C30_FailedProbeEmitsNothing ==
    [][/\ Probe("error") =>
            /\ currentState' = UNKNOWN
            /\ last'.res = "none"
            /\ last'.events = <<>>
            /\ UNCHANGED <<tasks, queue, active, downloads, calls>>
       /\ \A c \in InFlight :
            (c.op = "initialize" /\ c.pc = "checkNetworkState"
             /\ InitMonitored(c, "error")) =>
                /\ currentState' = UNKNOWN
                /\ last'.res = "none"
                /\ last'.events = <<>>
                /\ calls' = calls (-) SetToBag({c})
                /\ UNCHANGED <<tasks, queue, active, downloads>>
       /\ (last'.op \in {"probe", "initialized"} /\ last'.res = OFFLINE) =>
            /\ currentState' = OFFLINE
            /\ currentState # OFFLINE
            /\ \/ Probe("notConnected")
               \/ \E c \in InFlight : InitMonitored(c, "notConnected")]_vars

\* a probe has just thrown while a transfer is running: the tracker is
\* UNKNOWN, no signal went out and the transfer goes on
C30_Witness ==
    /\ last.op = "probe"
    /\ last.res = "none"
    /\ currentState = UNKNOWN
    /\ \E id \in Ids : tasks[id] # NoTask /\ tasks[id].status = DOWNLOADING

\* C31: a probe that changes the state of the tracker emits one state-change
\* event with the new and the old state and the signal of the new state
\* (online for ONLINE, offline for OFFLINE); a probe that leaves the state as
\* it was emits nothing
C31_EveryChangeIsAnnounced ==
    [][\A result \in ProbeResults :
          Probe(result) =>
              LET out == CheckNetworkState(Cur, result, handlers)
              IN IF currentState' # currentState
                 THEN /\ out[3] = <<StateChange(currentState', currentState)>>
                      /\ currentState' \in {ONLINE, OFFLINE} => out[2] = currentState'
                 ELSE out[3] = <<>> /\ out[2] = "none"]_vars

\* C32: each id occurs at most once in the queue and no id is in the queue and
\* in the admitted set at once
C32_NoDoubleEnqueue ==
    /\ \A i, j \in 1..Len(queue) : i # j => queue[i].taskId # queue[j].taskId
    /\ QueuedIds \cap active = {}

\* the transfers that are running: the startDownload calls suspended at
\* downloadAsync()
Transfers == {c \in InFlight : c.op = "start" /\ c.pc = "downloadAsync"}

\* C33: whenever no pause() or cancel() is part-way through, a transfer handle
\* is held for an id exactly when the registry holds its task as DOWNLOADING,
\* every running transfer belongs to such a task, and no more transfers run
\* than the limit allows
C33_HandleIffDownloading ==
    (\A c \in InFlight : c.op \notin {"pause", "cancel"}) =>
        /\ \A id \in Ids :
               downloads[id] # NoHandle <=>
                   (tasks[id] # NoTask /\ tasks[id].status = DOWNLOADING)
        /\ \A c \in Transfers :
               tasks[c.id] # NoTask /\ tasks[c.id].status = DOWNLOADING
        /\ Cardinality(Transfers) <= maxConcurrent

\* C34: when every awaited call returns in the end, an id that is in the
\* admitted set is out of it at some later time
C34_SlotsAreReleased ==
    \A id \in Ids : (id \in active) ~> (id \notin active)

\* C35: when every awaited call returns in the end, a task that is PENDING in
\* the registry leaves PENDING (it is admitted and becomes DOWNLOADING or
\* FAILED) or leaves the registry at some later time
C35_PendingIsAdmitted ==
    \A id \in Ids :
        (tasks[id] # NoTask /\ tasks[id].status = PENDING)
            ~> (tasks[id] = NoTask \/ tasks[id].status # PENDING)

\* an initialize() call has put the stored tasks into the registry
HasLoaded ==
    \/ isInitialized
    \/ \E c \in InFlight :
           c.op = "initialize" /\ c.pc \in {"checkNetworkState", "isMonitoring"}

\* C36: however the calls of initialize() overlap, the stored tasks are put
\* into the registry once and at most one pair of online/offline listeners is
\* registered on the monitor
C36_InitializeOnce ==
    [][/\ last'.op = "initLoaded" => ~HasLoaded
       /\ handlers' <= 1]_vars

\* C37: when the first probe, made by startMonitoring inside initialize(),
\* takes the monitor to ONLINE and automatic retry is on, every task restored
\* as FAILED with NETWORK_ERROR is resumed by that step
C37_EagerProbeRetries ==
    [][(last'.op = "initialized" /\ last'.res = ONLINE /\ autoRetry) =>
          \A id \in Ids : NetworkFailed(id) => Resumed(id)]_vars

\* C38: the online and the offline signal alternate: a probe never emits the
\* signal that was emitted last
C38_SignalsAlternate ==
    [][(last'.op \in {"probe", "initialized"} /\ last'.res # "none") =>
          last'.res # lastSignal]_vars

\* C39: in a step taken while the monitor is OFFLINE no task becomes
\* DOWNLOADING
C39_NoAdmissionWhileOffline ==
    [][(currentState = OFFLINE /\ currentState' = OFFLINE) =>
          \A id \in Ids :
              (tasks'[id] # NoTask /\ tasks'[id].status = DOWNLOADING) =>
                  (tasks[id] # NoTask /\ tasks[id].status = DOWNLOADING)]_vars

\* C40: when cleanup() returns, no task of the registry is DOWNLOADING and no
\* transfer handle is held
C40_CleanupLeavesNothingRunning ==
    last.op = "cleanupReturns" =>
        \A id \in Ids :
            /\ tasks[id] # NoTask => tasks[id].status # DOWNLOADING
            /\ downloads[id] = NoHandle

====

